---- MODULE Spec2Model ----
(***************************************************************************)
(* Model of waffle_hub/utils/callback.py: the progress handle              *)
(* ThreadProgressCallback, its training variant TrainCallback, and the     *)
(* worker thread a handle owns.                                            *)
(*                                                                         *)
(* Numbers the code computes with "/" are kept as exact fractions          *)
(* <<numerator, denominator>> with a positive denominator; two fractions   *)
(* are compared by cross multiplication, as == and <= compare the values.  *)
(***************************************************************************)
EXTENDS Integers, Sequences, FiniteSets, TLC

\* ------------------------------------------------------------ bounds
\* total_steps ranges over 1..MaxTotal; the steps passed to update over
\* 0 - StepBelow .. MaxTotal + StepAbove (update documents 0 ~ total_steps
\* and checks nothing).
MaxTotal == 3
StepBelow == 0
StepAbove == 2
MaxStart == 1
MaxNow == 3
MaxThreads == 1
MaxWorkerUpdates == 2

TotalChoices == 1..MaxTotal
Steps == (0 - StepBelow)..(MaxTotal + StepAbove)
MetricCounts == 0..(MaxTotal + StepAbove)
Times == 0..MaxNow
\* The steps a worker passes to update: the last one below the largest
\* total, the total itself, and one beyond it.
WorkerSteps == (MaxTotal - 1)..(MaxTotal + 1)
Threads == 1..MaxThreads
None == 0

\* ------------------------------------------------------------ fractions
Frac(n, d) == <<n, d>>
IntVal(n) == <<n, 1>>
REq(p, q) == p[1] * q[2] = q[1] * p[2]
RLeq(p, q) == p[1] * q[2] <= q[1] * p[2]
RLt(p, q) == p[1] * q[2] < q[1] * p[2]
RIsZero(p) == p[1] = 0
\* a / b for b # 0, the denominator kept positive
RDiv(a, b) == IF b[1] > 0 THEN <<a[1] * b[2], a[2] * b[1]>>
              ELSE <<0 - (a[1] * b[2]), 0 - (a[2] * b[1])>>
RSub(a, b) == <<a[1] * b[2] - b[1] * a[2], a[2] * b[2]>>
RMul(a, b) == <<a[1] * b[1], a[2] * b[2]>>

\* ------------------------------------------------------------ return values
RetNone == [kind |-> "none", b |-> FALSE, num |-> 0, den |-> 1]
RetBool(v) == [kind |-> "bool", b |-> v, num |-> 0, den |-> 1]
RetNum(p) == [kind |-> "num", b |-> FALSE, num |-> p[1], den |-> p[2]]
RetInf == [kind |-> "inf", b |-> FALSE, num |-> 0, den |-> 1]
RetRaise == [kind |-> "RuntimeError", b |-> FALSE, num |-> 0, den |-> 1]
RetFrac(r) == <<r.num, r.den>>

VARIABLES total_steps, thread, finished, progress, start_time,
          tstate, wpc, wstep, wcount, last, shown

vars == <<total_steps, thread, finished, progress, start_time,
          tstate, wpc, wstep, wcount, last, shown>>
handle == <<total_steps, thread, finished, progress, start_time>>
workers == <<wpc, wstep, wcount>>

\* The call most recently made on the handle, with what it returned and
\* whether it emitted the warning; seq flips at every call, so that a call
\* repeated with the same outcome still differs from no call at all.
Call(op, arg, warn, ret) ==
    [op |-> op, arg |-> arg, warn |-> warn, ret |-> ret, seq |-> 1 - last.seq]

\* What the caller of get_progress() read the last time it asked.
NotRead == [read |-> FALSE, val |-> <<0, 1>>]
Read(p) == [read |-> TRUE, val |-> p]

\* ------------------------------------------------------------ __init__
Init ==
    /\ total_steps \in TotalChoices
    /\ thread = None
    /\ finished = FALSE
    /\ progress = IntVal(0)
    /\ start_time \in 0..MaxStart
    /\ tstate = [t \in Threads |-> "new"]
    /\ wpc = [t \in Threads |-> "idle"]
    /\ wstep = [t \in Threads |-> 0]
    /\ wcount = [t \in Threads |-> 0]
    /\ last = [op |-> "init", arg |-> 0, warn |-> FALSE, ret |-> RetNone, seq |-> 0]
    /\ shown = NotRead

\* ------------------------------------------------------------ update
\* A handle that never warns.
UpdateSilent(fin) == FALSE

UpdateWarns(fin) == fin

\* finished recomputed from the step at every call.
UpdateFinishedRecomputed(fin, step, total) == step >= total

UpdateFinished(fin, step, total) ==
    IF fin THEN fin
    ELSE IF step >= total THEN TRUE
    ELSE fin

\* Integer division in place of true division.
UpdateProgressFloorDiv(fin, prog, step, total) ==
    IF fin THEN prog ELSE IntVal(step \div total)

\* The store made without looking at finished.
UpdateProgressUnguarded(fin, prog, step, total) == Frac(step, total)

UpdateProgress(fin, prog, step, total) ==
    IF fin THEN prog
    ELSE IF step >= total THEN Frac(step, total)
    ELSE Frac(step, total)

Update(step) ==
    /\ finished' = UpdateFinished(finished, step, total_steps)
    /\ progress' = UpdateProgress(finished, progress, step, total_steps)
    /\ last' = Call("update", step, UpdateWarns(finished), RetNone)
    /\ UNCHANGED <<shown, total_steps, thread, start_time, tstate, workers>>

\* ------------------------------------------------------------ readers
GetProgress ==
    /\ last' = Call("get_progress", 0, FALSE, RetNum(progress))
    /\ shown' = Read(progress)
    /\ UNCHANGED <<handle, tstate, workers>>

IsFinished ==
    /\ last' = Call("is_finished", 0, FALSE, RetBool(finished))
    /\ UNCHANGED <<shown, handle, tstate, workers>>

\* The estimated total time, the elapsed time not taken off.
RemainingTimeTotal(elapsed, prog) ==
    IF RIsZero(prog) THEN RetInf
    ELSE RetNum(RDiv(IntVal(elapsed), prog))

RemainingTime(elapsed, prog) ==
    IF RIsZero(prog) THEN RetInf
    ELSE RetNum(RSub(RDiv(IntVal(elapsed), prog), IntVal(elapsed)))

GetRemainingTime(now) ==
    /\ last' = Call("get_remaining_time", now, FALSE,
                    RemainingTime(now - start_time, progress))
    /\ UNCHANGED <<shown, handle, tstate, workers>>

\* ------------------------------------------------------------ force_finish
\* force_finish that also completes the progress.
ForceFinishCompletes ==
    /\ finished' = TRUE
    /\ progress' = IntVal(1)
    /\ last' = Call("force_finish", 0, FALSE, RetNone)
    /\ UNCHANGED <<shown, total_steps, thread, start_time, tstate, workers>>

ForceFinish ==
    /\ finished' = TRUE
    /\ last' = Call("force_finish", 0, FALSE, RetNone)
    /\ UNCHANGED <<shown, total_steps, thread, progress, start_time, tstate, workers>>

\* ------------------------------------------------------------ the thread
RegisterThread(t) ==
    /\ thread' = t
    /\ last' = Call("register_thread", t, FALSE, RetNone)
    /\ UNCHANGED <<shown, total_steps, finished, progress, start_time, tstate, workers>>

\* threading.Thread.start: a thread starts once, a second start raises.
Start ==
    /\ \/ /\ thread = None
          /\ last' = Call("start", 0, FALSE, RetNone)
          /\ UNCHANGED tstate
       \/ /\ thread # None
          /\ tstate[thread] = "new"
          /\ tstate' = [tstate EXCEPT ![thread] = "running"]
          /\ last' = Call("start", 0, FALSE, RetNone)
       \/ /\ thread # None
          /\ tstate[thread] # "new"
          /\ last' = Call("start", 0, FALSE, RetRaise)
          /\ UNCHANGED tstate
    /\ UNCHANGED <<shown, handle, workers>>

\* join that returns while the thread still runs.
JoinNoWait ==
    /\ \/ /\ thread = None
          /\ last' = Call("join", 0, FALSE, RetNone)
       \/ /\ thread # None
          /\ tstate[thread] = "new"
          /\ last' = Call("join", 0, FALSE, RetRaise)
       \/ /\ thread # None
          /\ tstate[thread] # "new"
          /\ last' = Call("join", 0, FALSE, RetNone)
    /\ UNCHANGED <<shown, handle, tstate, workers>>

\* threading.Thread.join: raises on a thread never started, and otherwise
\* returns once the thread has ended; while it runs the caller is blocked.
Join ==
    /\ \/ /\ thread = None
          /\ last' = Call("join", 0, FALSE, RetNone)
       \/ /\ thread # None
          /\ tstate[thread] = "new"
          /\ last' = Call("join", 0, FALSE, RetRaise)
       \/ /\ thread # None
          /\ tstate[thread] = "done"
          /\ last' = Call("join", 0, FALSE, RetNone)
    /\ UNCHANGED <<shown, handle, tstate, workers>>

\* The worker's target returns: the thread ends.
WorkerExit(t) ==
    /\ tstate[t] = "running"
    /\ wpc[t] = "idle"
    /\ tstate' = [tstate EXCEPT ![t] = "done"]
    /\ UNCHANGED <<shown, handle, workers, last>>

\* ------------------------------------------------------------ the worker's update,
\* statement by statement: nothing locks the handle.
WorkerCall(t, step) ==
    /\ tstate[t] = "running"
    /\ wpc[t] = "idle"
    /\ wcount[t] < MaxWorkerUpdates
    /\ wpc' = [wpc EXCEPT ![t] = "check"]
    /\ wstep' = [wstep EXCEPT ![t] = step]
    /\ wcount' = [wcount EXCEPT ![t] = @ + 1]
    /\ UNCHANGED <<shown, handle, tstate, last>>

WorkerBranch(fin, step, total) ==
    IF fin THEN "idle"
    ELSE IF step >= total THEN "set_finished"
    ELSE "set_progress"

WorkerCheck(t) ==
    /\ wpc[t] = "check"
    /\ wpc' = [wpc EXCEPT ![t] = WorkerBranch(finished, wstep[t], total_steps)]
    /\ last' = IF UpdateWarns(finished)
               THEN Call("update", wstep[t], TRUE, RetNone)
               ELSE last
    /\ UNCHANGED <<shown, handle, tstate, wstep, wcount>>

WorkerSetFinished(t) ==
    /\ wpc[t] = "set_finished"
    /\ finished' = TRUE
    /\ wpc' = [wpc EXCEPT ![t] = "set_progress"]
    /\ UNCHANGED <<shown, total_steps, thread, progress, start_time, tstate,
                   wstep, wcount, last>>

WorkerSetProgress(t) ==
    /\ wpc[t] = "set_progress"
    /\ progress' = Frac(wstep[t], total_steps)
    /\ wpc' = [wpc EXCEPT ![t] = "idle"]
    /\ last' = Call("update", wstep[t], FALSE, RetNone)
    /\ UNCHANGED <<shown, total_steps, thread, finished, start_time, tstate,
                   wstep, wcount>>

\* ------------------------------------------------------------ TrainCallback
\* get_progress without line 154: what update left is kept.
TrainKeepsUpdateResult(afterUpdate, n, total) == afterUpdate

\* What get_progress leaves in _progress: update(n) has run, then line 154
\* stores n / total_steps over whatever update left.
TrainStoredProgress(afterUpdate, n, total) == Frac(n, total)

\* get_progress without the call of update.
TrainGetProgressNoUpdate(n) ==
    \/ /\ n = 0
       /\ last' = Call("get_progress", n, FALSE, RetNum(IntVal(0)))
       /\ shown' = Read(IntVal(0))
       /\ UNCHANGED <<handle, tstate, workers>>
    \/ /\ n # 0
       /\ progress' = Frac(n, total_steps)
       /\ last' = Call("get_progress", n, FALSE, RetNum(progress'))
       /\ shown' = Read(progress')
       /\ UNCHANGED <<total_steps, thread, finished, start_time, tstate, workers>>

TrainGetProgress(n) ==
    \/ /\ n = 0
       /\ last' = Call("get_progress", n, FALSE, RetNum(IntVal(0)))
       /\ shown' = Read(IntVal(0))
       /\ UNCHANGED <<handle, tstate, workers>>
    \/ /\ n # 0
       /\ finished' = UpdateFinished(finished, n, total_steps)
       /\ progress' = TrainStoredProgress(
                          UpdateProgress(finished, progress, n, total_steps),
                          n, total_steps)
       /\ last' = Call("get_progress", n, UpdateWarns(finished), RetNum(progress'))
       /\ shown' = Read(progress')
       /\ UNCHANGED <<total_steps, thread, start_time, tstate, workers>>

\* ------------------------------------------------------------ specifications
\* The base handle, its methods called one at a time.
Next ==
    \/ \E step \in Steps : Update(step)
    \/ GetProgress
    \/ IsFinished
    \/ \E now \in Times : GetRemainingTime(now)
    \/ ForceFinish
    \/ \E t \in Threads : RegisterThread(t)
    \/ Start
    \/ Join
    \/ \E t \in Threads : WorkerExit(t)

Spec == Init /\ [][Next]_vars

\* The training variant: get_progress is overridden, the rest inherited.
NextTrain ==
    \/ \E n \in MetricCounts : TrainGetProgress(n)
    \/ \E step \in Steps : Update(step)
    \/ IsFinished
    \/ \E now \in Times : GetRemainingTime(now)
    \/ ForceFinish

SpecTrain == Init /\ [][NextTrain]_vars

\* The owner polls the handle while the worker threads it started update it.
NextThread ==
    \/ \E t \in Threads : RegisterThread(t)
    \/ Start
    \/ Join
    \/ GetProgress
    \/ IsFinished
    \/ ForceFinish
    \/ \E t \in Threads, step \in WorkerSteps : WorkerCall(t, step)
    \/ \E t \in Threads : WorkerCheck(t)
    \/ \E t \in Threads : WorkerSetFinished(t)
    \/ \E t \in Threads : WorkerSetProgress(t)
    \/ \E t \in Threads : WorkerExit(t)

\* The clock plays no part here: the handles differ in total_steps only.
InitThread == Init /\ start_time = 0

SpecThread == InitThread /\ [][NextThread]_vars

\* ------------------------------------------------------------ properties
\* A step in which the method op was called and returned.
Did(op) == last'.seq # last.seq /\ last'.op = op

One == IntVal(1)
Zero == IntVal(0)

\* C1: after update(step) with step >= total_steps the handle is finished,
\* and no call (update with any step, force_finish, the readers,
\* register_thread, start, join) takes finished from true back to false.
C1_FinishedStaysTrue ==
    [][ /\ (Did("update") /\ last'.arg >= total_steps) => finished'
        /\ finished => finished' ]_vars

\* C1 witness: a handle finished by update (progress >= 1) whose latest call
\* is a later update with a step below total_steps, and it is still finished.
C1_Witness ==
    /\ finished
    /\ RLeq(One, progress)
    /\ last.op = "update"
    /\ last.arg < total_steps

\* C2: update(step) with 0 <= step < total_steps on an unfinished base handle
\* leaves it unfinished and stores step/total_steps, which is what
\* get_progress() then returns.
C2_UpdateBelowTotal ==
    [][ /\ (~finished /\ Did("update") /\ last'.arg >= 0 /\ last'.arg < total_steps)
             => (~finished' /\ REq(progress', Frac(last'.arg, total_steps)))
        /\ Did("get_progress") => REq(RetFrac(last'.ret), progress) ]_vars

\* C2 witness: get_progress() returned a fraction strictly between 0 and 1
\* on an unfinished handle.
C2_Witness ==
    /\ ~finished
    /\ last.op = "get_progress"
    /\ RLt(Zero, RetFrac(last.ret))
    /\ RLt(RetFrac(last.ret), One)
    /\ REq(RetFrac(last.ret), progress)

\* C3 (the claim as stated): the stored progress is within [0, 1] in every
\* reachable state.
C3_ProgressInUnitInterval ==
    /\ RLeq(Zero, progress)
    /\ RLeq(progress, One)

\* C4 (the claim as stated): the value get_progress() returns is never
\* smaller than the value an earlier get_progress() returned.
C4_ProgressNonDecreasing ==
    [][ (Did("get_progress") /\ shown.read) => RLeq(shown.val, shown'.val) ]_vars

\* C4 amended: on a base handle get_progress() returns the stored progress,
\* and the stored progress gets smaller only by update(step) on an unfinished
\* handle with step/total_steps below the current progress, which then
\* stores step/total_steps; every other call leaves it as it was or raises it.
C4_ProgressLoweredOnlyByUpdate ==
    [][ /\ \/ RLeq(progress, progress')
           \/ /\ ~finished
              /\ Did("update")
              /\ RLt(Frac(last'.arg, total_steps), progress)
              /\ REq(progress', Frac(last'.arg, total_steps))
        /\ Did("get_progress") => (last'.ret = RetNum(progress) /\ shown' = Read(progress)) ]_vars

\* C4 witness: on an unfinished handle an update with a step in
\* 0..total_steps-1 has stored less than the value get_progress() returned
\* before it, itself below 1.
C4_Witness ==
    /\ ~finished
    /\ last.op = "update"
    /\ last.arg >= 0
    /\ shown.read
    /\ RLt(shown.val, One)
    /\ RLt(progress, shown.val)
    /\ REq(progress, Frac(last.arg, total_steps))

\* C5: update(step) on a finished base handle warns, returns normally and
\* changes nothing: finished stays true and progress keeps its value.
C5_UpdateAfterFinished ==
    [][ (finished /\ Did("update"))
          => /\ last'.warn
             /\ last'.ret = RetNone
             /\ finished'
             /\ progress' = progress
             /\ UNCHANGED <<total_steps, thread, start_time, tstate>> ]_vars

\* C5 witness: update was called on a finished handle with a step whose
\* fraction is not the stored progress.
C5_Witness ==
    /\ finished
    /\ last.op = "update"
    /\ last.warn
    /\ ~REq(progress, Frac(last.arg, total_steps))

\* C6: force_finish() makes the handle finished from any state and leaves
\* progress, total_steps, the start time, the registered thread and the
\* thread's run state as they were.
C6_ForceFinishFrame ==
    [][ Did("force_finish")
          => /\ finished'
             /\ UNCHANGED <<progress, total_steps, start_time, thread, tstate>> ]_vars

\* C6 witness: force_finish was called at a progress below 1 while the
\* registered thread runs, and the thread still runs.
C6_Witness ==
    /\ last.op = "force_finish"
    /\ finished
    /\ RLt(progress, One)
    /\ thread # None
    /\ tstate[thread] = "running"

\* C7: get_remaining_time() returns +infinity exactly when the stored
\* progress is 0, and otherwise the finite elapsed * (1/progress - 1), which
\* is 0 at progress 1.
C7_RemainingTime ==
    last.op = "get_remaining_time" =>
        LET elapsed == last.arg - start_time
        IN /\ (last.ret.kind = "inf") <=> RIsZero(progress)
           /\ ~RIsZero(progress) =>
                /\ last.ret.kind = "num"
                /\ REq(RetFrac(last.ret),
                       RMul(IntVal(elapsed), RSub(RDiv(One, progress), One)))
           /\ REq(progress, One) => (last.ret.kind = "num" /\ last.ret.num = 0)

\* C7 witness: a positive finite remaining time was returned.
C7_Witness ==
    /\ last.op = "get_remaining_time"
    /\ last.ret.kind = "num"
    /\ RLt(Zero, RetFrac(last.ret))
    /\ RLt(Zero, progress)

C9_JoinWaitsForWorker ==
    /\ (last.op = "join" /\ last.ret = RetNone /\ thread # None)
          => (tstate[thread] = "done" /\ wpc[thread] = "idle")
    /\ \A t \in Threads :
          (tstate[t] = "done" /\ wcount[t] > 0 /\ wstep[t] >= total_steps)
             => finished

\* C9 witness: join() returned for a worker that made all its updates, the
\* last one with step >= total_steps, after the owner had forced the finish
\* or not.
C9_Witness ==
    /\ last.op = "join"
    /\ last.ret = RetNone
    /\ thread # None
    /\ wcount[thread] = MaxWorkerUpdates
    /\ wstep[thread] >= total_steps
    /\ finished

====
